---- MODULE Spec2Model ----
(***************************************************************************)
(* A model of the call session of AgentVapi: the stream handler of app.py  *)
(* and the VoiceAgent of Agent_Kusmus.py.  One session has three threads:  *)
(* the thread of handle_call (setup, greeting, receive loop, teardown),    *)
(* the transcription thread (_start_transcription_stream, which also runs  *)
(* _get_gemini_response and the synthesis of the responses) together with  *)
(* the request generator that feeds the recognition exchange, and the      *)
(* relay thread (_send_tts_audio).  They share the two queues, the two     *)
(* archive writers and the websocket.                                      *)
(***************************************************************************)
EXTENDS Integers, Sequences, FiniteSets, TLC

(* ------------------------------ bounds --------------------------------- *)

\* inbound media frames received in one session
MaxFrames == 2
\* finalized transcripts delivered by the recognition service in one session
MaxTurns == 1
\* largest synthesized payload, in bytes, whose chunking is followed
MaxPayload == 5000

(* --------------------------- program constants ------------------------- *)

chunk_size == 2048

VARIABLES
    mainpc,                     \* position of the thread running stream / handle_call
    ws_closed,                  \* ws.closed
    agents,                     \* VoiceAgent objects created by stream
    appointment_id,             \* request.args.get('appointment_id')
    first_message,              \* what the first ws.receive() of stream returned
    ws_close_calls,             \* calls of ws.close() made by stream
    message,                    \* the message that ended the receive loop
    raised,                     \* handle_call left by an exception (seen by stream)
    patient_info,               \* self.patient_info
    patient_preferred_language, \* self.patient_preferred_language
    inbound_writer,             \* self.inbound_writer
    outbound_writer,            \* self.outbound_writer
    inbound_file,               \* frames written to the inbound archive
    outbound_file,              \* chunks written to the outbound archive
    closes,                     \* physical closes per archive direction, calls of
                                \* _close_audio_writers, physical closes of the last call
    late_write,                 \* writeframes attempted on a closed writer, per direction
    audio_queue,                \* self.audio_queue
    tts_audio_queue,            \* self.tts_audio_queue
    enqueued,                   \* every put on each queue, in order (history)
    greeting,                   \* chunks of the greeting not yet put
    audio_content,              \* len(response.audio_content) of the synthesis call
                                \* whose chunking is followed byte by byte
    tpc,                        \* position of the transcription thread
    genpc,                      \* position of request_generator
    consumed,                   \* frames yielded by request_generator, in order
    turns,                      \* transcripts passed to _get_gemini_response so far
    received,                   \* the results that carried them, as the service
                                \* marked them (history)
    conversation_history,       \* self.conversation_history
    lastDecide,                 \* what the _get_gemini_response call of this iteration did
    pending,                    \* chunks of the current response not yet put
    synthesis_failed,           \* utterances whose synthesis call failed (history)
    language_code,              \* language_code of _start_transcription_stream
    lang_settings,              \* lang_settings of the last synthesis call
    rpc,                        \* position of the relay thread
    audio_data,                 \* the chunk the relay holds
    sent                        \* chunks sent on the websocket, in order

vars == <<mainpc, ws_closed, agents, appointment_id, first_message, ws_close_calls, message, raised, patient_info,
          patient_preferred_language, inbound_writer, outbound_writer,
          inbound_file, outbound_file, closes, late_write, audio_queue,
          tts_audio_queue, enqueued, greeting, audio_content, tpc, genpc, consumed, turns,
          received,
          conversation_history, lastDecide, pending, synthesis_failed,
          language_code, lang_settings, rpc, audio_data, sent>>

streamVars == <<appointment_id, first_message, ws_close_calls>>

mainVars == <<mainpc, ws_closed, agents, message, raised, patient_info,
              patient_preferred_language, greeting, audio_content, streamVars>>
archiveVars == <<inbound_writer, outbound_writer, inbound_file, outbound_file,
                 closes, late_write>>
queueVars == <<audio_queue, tts_audio_queue, enqueued>>
transVars == <<tpc, genpc, consumed, turns, received, conversation_history, lastDecide,
               pending, synthesis_failed, language_code, lang_settings>>
relayVars == <<rpc, audio_data, sent>>

(* ------------------------------ queues --------------------------------- *)

\* a test that takes no item for the sentinel
IsNoneNever(item) == FALSE

\* the sentinel both queues are terminated with (Python's None)
NoneItem == [kind |-> "None"]

Frame(n) == [kind |-> "frame", id |-> n]

Chunk(u, i, n) == [kind |-> "chunk", utterance |-> u, index |-> i, size |-> n]

IsNone(item) == item.kind = "None"

\* queue.Queue.put on an unbounded queue: appends, never blocks
QueuePut(q, item) == Append(q, item)

\* a get that returns the newest item instead of the oldest
QueueGetNewest(q) == [item |-> q[Len(q)], rest |-> SubSeq(q, 1, Len(q) - 1)]

\* a get that leaves the sentinel in the queue for the next get
QueueGetKeepsSentinel(q) == [item |-> Head(q), rest |-> IF IsNone(Head(q)) THEN q ELSE Tail(q)]

\* queue.Queue.get: removes and returns the oldest item (enabled when non-empty)
QueueGet(q) == [item |-> Head(q), rest |-> Tail(q)]

(* --------------------------- language table ---------------------------- *)

\* self.language_map
language_map ==
    [English |-> [stt_code |-> "en-US", tts_code |-> "en-US", tts_voice_name |-> "en-US-Wavenet-F"],
     Hausa   |-> [stt_code |-> "ha-NG", tts_code |-> "ha-NG", tts_voice_name |-> "ha-NG-Wavenet-A"],
     Igbo    |-> [stt_code |-> "ig-NG", tts_code |-> "ig-NG", tts_voice_name |-> "ig-NG-Wavenet-A"],
     Yoruba  |-> [stt_code |-> "yo-NG", tts_code |-> "yo-NG", tts_voice_name |-> "yo-NG-Wavenet-A"],
     Pidgin  |-> [stt_code |-> "en-NG", tts_code |-> "en-NG", tts_voice_name |-> "en-NG-Wavenet-B"]]

\* no synthesis call has looked the settings up yet
NoSettings == [stt_code |-> "None", tts_code |-> "None", tts_voice_name |-> "None"]

\* self.language_map.get(lang, self.language_map['English'])
TtsSettings(lang) ==
    IF lang \in DOMAIN language_map THEN language_map[lang] ELSE language_map["English"]

\* a lookup that passes an unknown language on as the locale
SttCodeUnmapped(lang) ==
    IF lang \in DOMAIN language_map THEN language_map[lang].stt_code ELSE lang

\* self.language_map.get(lang, {}).get('stt_code', 'en-US')
SttCode(lang) ==
    IF lang \in DOMAIN language_map THEN language_map[lang].stt_code ELSE "en-US"

\* preferred_language values of the fetched records (one the table does not know)
RecordLanguages == {"Swahili"}

(* ------------------------------ synthesis ------------------------------ *)

\* a chunk loop whose slices are not cut at the end of the audio
RECURSIVE ChunksFromUnclamped(_, _, _)
ChunksFromUnclamped(u, len, i) ==
    IF i >= len THEN <<>>
    ELSE <<Chunk(u, i, chunk_size)>> \o ChunksFromUnclamped(u, len, i + chunk_size)

\* for i in range(0, len(audio_content), chunk_size): yield audio_content[i:i + chunk_size]
\* (a chunk is the slice of the audio that starts at byte `index` and has `size` bytes)
RECURSIVE ChunksFrom(_, _, _)
ChunksFrom(u, len, i) ==
    IF i >= len THEN <<>>
    ELSE <<Chunk(u, i, IF len - i < chunk_size THEN len - i ELSE chunk_size)>>
         \o ChunksFrom(u, len, i + chunk_size)

\* lengths of the audio the synthesis service returns for utterance u: the
\* greeting (utterance 0) takes more than one chunk, a response exactly one
PayloadLens(u) == IF u = 0 THEN {chunk_size + 1} ELSE {chunk_size}

\* what one call of the synthesis service does: it raises, or returns audio of some length
SynthesisOutcomes(u) ==
    {[raises |-> TRUE, len |-> 0]} \cup {[raises |-> FALSE, len |-> n] : n \in PayloadLens(u)}

\* a generator that has yielded part of the audio when the failure is caught
SynthesizeYieldsOnFailure(u, outcome) ==
    IF outcome.raises THEN <<Chunk(u, 0, 1)>> ELSE ChunksFrom(u, outcome.len, 0)

\* _synthesize_text_to_speech(text): the chunks the generator yields for utterance u;
\* a service failure is caught inside the generator, which then yields nothing
SynthesizeTextToSpeech(u, outcome) ==
    IF outcome.raises THEN <<>> ELSE ChunksFrom(u, outcome.len, 0)

\* except Exception of _synthesize_text_to_speech: the utterances whose synthesis
\* call failed so far (the failure is logged and the generator returns)
Failed(failed, u, outcome) == IF outcome.raises THEN failed \cup {u} ELSE failed

(* -------------------------- reasoning service -------------------------- *)

Intents == {"confirm", "reschedule", "clarify", "None"}

NotJson == [kind |-> "not_json", intent |-> "None", response_text |-> "None"]

\* the JSON value a text carries: not JSON at all, a JSON value that is no object,
\* or an object with "intent" and "response_text" ("None": the key is absent)
JsonPayloads ==
    {NotJson, [kind |-> "nonobject", intent |-> "None", response_text |-> "None"]}
    \cup {[kind |-> "object", intent |-> i, response_text |-> "text"] : i \in Intents}
    \cup {[kind |-> "object", intent |-> "clarify", response_text |-> "None"]}

\* model.generate_content(prompt): raises, or returns a text that holds a payload
\* bare, inside a ```json fence, or bare with prose around it
ReasoningOutcomes ==
    {[raises |-> TRUE, form |-> "bare", payload |-> NotJson]}
    \cup {[raises |-> FALSE, form |-> f, payload |-> j] :
             f \in {"bare", "fenced"}, j \in JsonPayloads}
    \cup {[raises |-> FALSE, form |-> "prose",
           payload |-> [kind |-> "object", intent |-> "confirm", response_text |-> "text"]]}

\* re.search(r'```json\n(.*)\n```', response.text, re.DOTALL): group(1) if the fence
\* is found, else the whole text (which is JSON only when no prose surrounds it)
JsonText(o) ==
    IF o.form = "fenced" THEN o.payload
    ELSE IF o.form = "prose" THEN NotJson
    ELSE o.payload

\* json.loads(json_text), decision.get("intent"), decision.get("response_text"):
\* the exception raised ("None": none) and the two values read
ParseDecision(o) ==
    LET j == JsonText(o) IN
    IF o.raises THEN [exc |-> "ServiceError", intent |-> "None", response_text |-> "None"]
    ELSE IF j.kind = "not_json"
        THEN [exc |-> "JSONDecodeError", intent |-> "None", response_text |-> "None"]
    ELSE IF j.kind = "nonobject"
        THEN [exc |-> "AttributeError", intent |-> "None", response_text |-> "None"]
    ELSE [exc |-> "None", intent |-> j.intent, response_text |-> j.response_text]

\* except clauses that catch json.JSONDecodeError only
FallbackTextParseOnly(exc) ==
    IF exc = "JSONDecodeError" THEN "parse_apology" ELSE "uncaught"

\* the except clauses of _get_gemini_response: the text returned for an exception
\* raised inside its try block ("uncaught": the exception is not caught there)
FallbackText(exc) ==
    IF exc \in {"JSONDecodeError", "AttributeError"} THEN "parse_apology"
    ELSE "service_apology"

\* the status _get_gemini_response writes for an intent ("None": no update)
StatusFor(intent) ==
    IF intent = "confirm" THEN "confirmed"
    ELSE IF intent = "reschedule" THEN "rescheduled"
    ELSE "None"

\* how the reasoning outcome looks from outside: raised, or the kind of JSON it holds
OutcomeClass(o) ==
    IF o.raises THEN "raised" ELSE o.payload.kind

(* ------------------------------- Init ---------------------------------- *)

NoDecide == [turn |-> 0, outcome |-> "none", intent |-> "None", calls |-> 0,
             updates |-> <<>>, result |-> "none", text |-> "None"]

\* stream is entered with an open websocket; VoiceAgent.__init__ sets the rest
Init ==
    /\ mainpc = "stream"
    /\ ws_closed = FALSE
    /\ agents = 0
    /\ appointment_id = "unread"
    /\ first_message = "unread"
    /\ ws_close_calls = 0
    /\ message = "none"
    /\ raised = FALSE
    /\ patient_info = "None"
    /\ patient_preferred_language = "English"
    /\ inbound_writer = "None"
    /\ outbound_writer = "None"
    /\ inbound_file = <<>>
    /\ outbound_file = <<>>
    /\ closes = [inbound |-> 0, outbound |-> 0, calls |-> 0, last |-> 0]
    /\ late_write = [inbound |-> FALSE, outbound |-> FALSE]
    /\ audio_queue = <<>>
    /\ tts_audio_queue = <<>>
    /\ enqueued = [inbound |-> <<>>, outbound |-> <<>>]
    /\ greeting = <<>>
    /\ audio_content = 0
    /\ tpc = "idle"
    /\ genpc = "idle"
    /\ consumed = <<>>
    /\ turns = 0
    /\ received = <<>>
    /\ conversation_history = <<>>
    /\ lastDecide = NoDecide
    /\ pending = <<>>
    /\ synthesis_failed = {}
    /\ language_code = "None"
    /\ lang_settings = NoSettings
    /\ rpc = "idle"
    /\ audio_data = NoneItem
    /\ sent = <<>>

(* ------------------- stream and handle_call: setup --------------------- *)

\* request.args.get('appointment_id'): None when the argument is missing, the
\* empty text when it is given empty, or an id
AppointmentIds == {"None", "", "appt-1"}

\* if not appointment_id: None and the empty text count as no id
HasAppointmentId(id) == id \notin {"None", ""}

\* what the first ws.receive() of stream returns: a connected event (with its
\* streamSid or without), None, an empty text, another event, or a text that is
\* not JSON
FirstMessages == {"connected", "connected_no_sid", "none", "empty", "other", "malformed"}

\* ws.closed after the first receive: receive() returns None when the peer has
\* closed the websocket
ClosedBy(first) == first = "none"

\* a finally block that closes the websocket without looking at ws.closed
FinallyClosesAlways(closed, calls) == calls + 1

\* finally: if not ws.closed: ws.close() -- the calls of ws.close() made so far,
\* after the block
FinallyCloses(closed, calls) == IF closed THEN calls ELSE calls + 1

\* stream up to the call of handle_call: without an appointment id the websocket is
\* closed at once; the first message must be a connected event, and only then is
\* the VoiceAgent created; every other path ends in the finally that closes ws
Stream ==
    /\ mainpc = "stream"
    /\ \E id \in AppointmentIds, first \in FirstMessages :
          /\ appointment_id' = id
          /\ IF ~HasAppointmentId(id)
             THEN \* ws.close(); return; then the finally block
                  /\ first_message' = "unread"
                  /\ ws_close_calls' = FinallyCloses(TRUE, ws_close_calls + 1)
                  /\ ws_closed' = TRUE
                  /\ mainpc' = "done"
                  /\ UNCHANGED agents
             ELSE IF first = "connected"
             THEN /\ first_message' = first
                  /\ agents' = agents + 1
                  /\ mainpc' = "setup"
                  /\ UNCHANGED <<ws_closed, ws_close_calls>>
             ELSE \* no session; the finally block
                  /\ first_message' = first
                  /\ ws_close_calls' = FinallyCloses(ClosedBy(first), ws_close_calls)
                  /\ ws_closed' = TRUE
                  /\ mainpc' = "done"
                  /\ UNCHANGED agents
    /\ UNCHANGED <<message, raised, patient_info, patient_preferred_language, greeting>>
    /\ UNCHANGED <<archiveVars, queueVars, transVars, relayVars>>
    /\ UNCHANGED audio_content

\* _setup_audio_writers: both opened, or the failure (caught there) leaves the
\* writers not yet assigned as None
SetupAudioWriters ==
    /\ mainpc = "setup"
    /\ \E outcome \in {"ok", "inbound_fails"} :
          /\ inbound_writer' = IF outcome = "inbound_fails" THEN "None" ELSE "open"
          /\ outbound_writer' = IF outcome = "ok" THEN "open" ELSE "None"
    /\ mainpc' = "fetch"
    /\ UNCHANGED <<ws_closed, agents, message, raised, patient_info,
                   patient_preferred_language, greeting>>
    /\ UNCHANGED <<inbound_file, outbound_file, closes, late_write>>
    /\ UNCHANGED <<queueVars, transVars, relayVars>>
    /\ UNCHANGED <<audio_content, streamVars>>

\* _get_patient_info_from_db: a record sets patient_info and the language; no record
\* or a failing fetch (caught there) leaves None and "English"
GetPatientInfoFromDb ==
    /\ mainpc = "fetch"
    /\ \/ /\ patient_info' = "None"
          /\ UNCHANGED patient_preferred_language
       \/ \E lang \in RecordLanguages :
             /\ patient_info' = "record"
             /\ patient_preferred_language' = lang
    /\ mainpc' = "start_transcription"
    /\ UNCHANGED <<ws_closed, agents, message, raised, greeting>>
    /\ UNCHANGED <<archiveVars, queueVars, transVars, relayVars>>
    /\ UNCHANGED <<audio_content, streamVars>>

\* an error that leaves handle_call without the teardown
OnErrorSkipsTeardown == "stream_finally"

\* except Exception / finally of handle_call: every error raised in the try block
\* ends in the teardown
OnError == "put_inbound_sentinel"

\* transcription_thread.start(); the recognition exchange starts to draw requests
StartTranscriptionThread ==
    /\ mainpc = "start_transcription"
    /\ \/ /\ tpc' = "wait"
          /\ genpc' = "run"
          /\ language_code' = SttCode(patient_preferred_language)
          /\ mainpc' = "start_tts"
       \/ /\ mainpc' = OnError
          /\ UNCHANGED <<tpc, genpc, language_code>>
    /\ UNCHANGED <<ws_closed, agents, message, raised, patient_info,
                   patient_preferred_language, greeting>>
    /\ UNCHANGED <<consumed, turns, received, conversation_history, lastDecide, pending,
                   synthesis_failed, lang_settings>>
    /\ UNCHANGED <<archiveVars, queueVars, relayVars>>
    /\ UNCHANGED <<audio_content, streamVars>>

\* tts_thread.start()
StartTtsThread ==
    /\ mainpc = "start_tts"
    /\ \/ /\ rpc' = "get"
          /\ mainpc' = "greeting"
       \/ /\ mainpc' = OnError
          /\ UNCHANGED rpc
    /\ UNCHANGED <<ws_closed, agents, message, raised, patient_info,
                   patient_preferred_language, greeting>>
    /\ UNCHANGED <<audio_data, sent>>
    /\ UNCHANGED <<archiveVars, queueVars, transVars>>
    /\ UNCHANGED <<audio_content, streamVars>>

\* a greeting whose chunks are not put before the receive loop is entered
AfterGreetingEager(rest) == "loop"

\* where the thread of handle_call stands once the chunks left to put are `rest`:
\* the receive loop is entered when the greeting's generator is exhausted
AfterGreeting(rest) == IF rest = <<>> THEN "loop" ELSE "greeting_put"

\* _send_initial_greeting: the synthesis call (utterance 0 is the greeting)
SendInitialGreeting ==
    /\ mainpc = "greeting"
    /\ \E outcome \in SynthesisOutcomes(0) :
          /\ greeting' = SynthesizeTextToSpeech(0, outcome)
          /\ synthesis_failed' = Failed(synthesis_failed, 0, outcome)
          /\ lang_settings' = TtsSettings(patient_preferred_language)
          /\ mainpc' = AfterGreeting(greeting')
    /\ UNCHANGED <<ws_closed, agents, message, raised, patient_info,
                   patient_preferred_language>>
    /\ UNCHANGED <<tpc, genpc, consumed, turns, received, conversation_history, lastDecide, pending,
                   language_code>>
    /\ UNCHANGED <<archiveVars, queueVars, relayVars>>
    /\ UNCHANGED <<audio_content, streamVars>>

\* _send_initial_greeting: self.tts_audio_queue.put(audio_chunk), chunk by chunk
PutGreetingChunk ==
    /\ mainpc = "greeting_put"
    /\ tts_audio_queue' = QueuePut(tts_audio_queue, Head(greeting))
    /\ enqueued' = [enqueued EXCEPT !.outbound = Append(@, Head(greeting))]
    /\ greeting' = Tail(greeting)
    /\ mainpc' = AfterGreeting(greeting')
    /\ UNCHANGED audio_queue
    /\ UNCHANGED <<ws_closed, agents, message, raised, patient_info,
                   patient_preferred_language>>
    /\ UNCHANGED <<archiveVars, transVars, relayVars>>
    /\ UNCHANGED <<audio_content, streamVars>>

(* --------------------- handle_call: the receive loop ------------------- *)

\* a message that makes json.loads, data['event'], data['media']['payload'] or
\* base64.b64decode raise (all four raise inside the same try block)
Malformed == {"malformed"}

\* what ws.receive() returns inside the loop: a media event (with a payload or an
\* empty one), a stop event, another event, a malformed message, or None when the
\* peer closed the websocket ("closed")
Messages == {"media", "media_empty", "stop", "other", "closed"} \cup Malformed

\* while not ws.closed: the loop is left when the websocket is closed
LoopExit ==
    /\ mainpc = "loop"
    /\ ws_closed
    /\ mainpc' = "put_inbound_sentinel"
    /\ UNCHANGED <<ws_closed, agents, message, raised, patient_info,
                   patient_preferred_language, greeting>>
    /\ UNCHANGED <<archiveVars, queueVars, transVars, relayVars>>
    /\ UNCHANGED <<audio_content, streamVars>>

\* one iteration of the receive loop: ws.receive() and the handling of the message.
\* message keeps the message that makes the loop end (a stop event, a closed
\* websocket, a message whose handling raises); after an iteration that goes on
\* to the next receive it is dead (overwritten before it is read) and stays "none"
ReceiveLoop ==
    /\ mainpc = "loop"
    /\ ~ws_closed
    /\ \E m \in Messages :
          CASE m = "media" ->
                    LET frame == Frame(Len(enqueued.inbound) + 1) IN
                    /\ Len(enqueued.inbound) < MaxFrames
                    /\ audio_queue' = QueuePut(audio_queue, frame)
                    /\ enqueued' = [enqueued EXCEPT !.inbound = Append(@, frame)]
                    /\ IF inbound_writer = "None"
                       THEN UNCHANGED <<inbound_file, mainpc, message>>
                       ELSE \E write_ok \in BOOLEAN :
                               IF write_ok
                               THEN /\ inbound_file' = Append(inbound_file, frame)
                                    /\ UNCHANGED <<mainpc, message>>
                               ELSE /\ mainpc' = OnError
                                    /\ message' = m
                                    /\ UNCHANGED inbound_file
                    /\ UNCHANGED <<ws_closed, tts_audio_queue>>
               [] m \in {"media_empty", "other"} ->
                    UNCHANGED <<mainpc, message, ws_closed, queueVars, inbound_file>>
               [] m = "closed" ->
                    /\ ws_closed' = TRUE
                    /\ message' = m
                    /\ UNCHANGED <<mainpc, queueVars, inbound_file>>
               [] m = "stop" ->
                    /\ mainpc' = "put_inbound_sentinel"
                    /\ message' = m
                    /\ UNCHANGED <<ws_closed, queueVars, inbound_file>>
               [] m \in Malformed ->
                    /\ mainpc' = OnError
                    /\ message' = m
                    /\ UNCHANGED <<ws_closed, queueVars, inbound_file>>
    /\ UNCHANGED <<agents, raised, patient_info, patient_preferred_language, greeting>>
    /\ UNCHANGED <<inbound_writer, outbound_writer, outbound_file, closes, late_write>>
    /\ UNCHANGED <<transVars, relayVars>>
    /\ UNCHANGED <<audio_content, streamVars>>

(* ----------------------- handle_call: the teardown --------------------- *)

\* finally: self.audio_queue.put(None)
PutInboundSentinel ==
    /\ mainpc = "put_inbound_sentinel"
    /\ audio_queue' = QueuePut(audio_queue, NoneItem)
    /\ enqueued' = [enqueued EXCEPT !.inbound = Append(@, NoneItem)]
    /\ mainpc' = "put_outbound_sentinel"
    /\ UNCHANGED tts_audio_queue
    /\ UNCHANGED <<ws_closed, agents, message, raised, patient_info,
                   patient_preferred_language, greeting>>
    /\ UNCHANGED <<archiveVars, transVars, relayVars>>
    /\ UNCHANGED <<audio_content, streamVars>>

\* finally: self.tts_audio_queue.put(None)
PutOutboundSentinel ==
    /\ mainpc = "put_outbound_sentinel"
    /\ tts_audio_queue' = QueuePut(tts_audio_queue, NoneItem)
    /\ enqueued' = [enqueued EXCEPT !.outbound = Append(@, NoneItem)]
    /\ mainpc' = "close_audio_writers"
    /\ UNCHANGED audio_queue
    /\ UNCHANGED <<ws_closed, agents, message, raised, patient_info,
                   patient_preferred_language, greeting>>
    /\ UNCHANGED <<archiveVars, transVars, relayVars>>
    /\ UNCHANGED <<audio_content, streamVars>>

\* Wave_write.close(): an open writer is closed (physically, also when the flush
\* raises); on a closed writer it does nothing
WaveClose(writer) == IF writer = "None" THEN "None" ELSE "closed"

PhysicalCloses(writer) == IF writer = "open" THEN 1 ELSE 0

\* _close_audio_writers: the inbound writer is closed, then the outbound one; an
\* error raised by the first close leaves the function before the second
CloseWriters(outcome) ==
    LET first == PhysicalCloses(inbound_writer)
        second == IF outcome = "inbound_raises" THEN 0 ELSE PhysicalCloses(outbound_writer)
    IN
    /\ outcome = "inbound_raises" => inbound_writer = "open"
    /\ outcome = "outbound_raises" => outbound_writer = "open"
    /\ inbound_writer' = WaveClose(inbound_writer)
    /\ outbound_writer' = IF outcome = "inbound_raises" THEN outbound_writer
                          ELSE WaveClose(outbound_writer)
    /\ closes' = [inbound |-> closes.inbound + first,
                  outbound |-> closes.outbound + second,
                  calls |-> closes.calls + 1,
                  last |-> first + second]
    /\ raised' = (outcome # "ok")

CloseOutcomes == {"ok", "inbound_raises", "outbound_raises"}

\* finally: self._close_audio_writers(); handle_call returns, or the error of a
\* close leaves it as an exception that stream catches
CloseAudioWriters ==
    /\ mainpc = "close_audio_writers"
    /\ \E outcome \in CloseOutcomes : CloseWriters(outcome)
    /\ mainpc' = "stream_finally"
    /\ UNCHANGED <<ws_closed, agents, message, patient_info,
                   patient_preferred_language, greeting>>
    /\ UNCHANGED <<inbound_file, outbound_file, late_write>>
    /\ UNCHANGED <<queueVars, transVars, relayVars>>
    /\ UNCHANGED <<audio_content, streamVars>>

\* stream: except Exception logs what handle_call raised; finally: if not
\* ws.closed: ws.close(); stream returns (the locals of the call are gone)
StreamFinally ==
    /\ mainpc = "stream_finally"
    /\ ws_close_calls' = FinallyCloses(ws_closed, ws_close_calls)
    /\ ws_closed' = TRUE
    /\ raised' = FALSE
    /\ message' = "none"
    /\ mainpc' = "done"
    /\ UNCHANGED <<agents, patient_info, patient_preferred_language, greeting>>
    /\ UNCHANGED <<archiveVars, queueVars, transVars, relayVars>>
    /\ UNCHANGED <<audio_content, appointment_id, first_message>>

(* ----------------------- the transcription thread ---------------------- *)

\* request_generator: chunk = self.audio_queue.get(); None ends the generator, any
\* other chunk is yielded to the recognition exchange
RequestGenerator ==
    /\ genpc = "run"
    /\ audio_queue # <<>>
    /\ LET got == QueueGet(audio_queue) IN
          /\ audio_queue' = got.rest
          /\ IF IsNone(got.item)
             THEN /\ genpc' = "done"
                  /\ UNCHANGED consumed
             ELSE /\ consumed' = Append(consumed, got.item)
                  /\ UNCHANGED genpc
    /\ UNCHANGED <<tts_audio_queue, enqueued>>
    /\ UNCHANGED <<tpc, turns, received, conversation_history, lastDecide, pending,
                   synthesis_failed, language_code, lang_settings>>
    /\ UNCHANGED <<mainVars, archiveVars, relayVars>>

\* the request generator is no longer drawn from once the exchange has ended
Abandon(g) == IF g = "run" THEN "abandoned" ELSE g

\* a configuration that asks the service for interim results
interim_results_on == TRUE

\* StreamingRecognitionConfig(config=config, interim_results=False)
interim_results == FALSE

\* what the recognition service sends in one response, by how the result is marked:
\* a finalized result, a response without results, and an interim result only
\* when the configuration asks for interim results
ResponseKinds(interim) ==
    {"final", "empty"} \cup (IF interim THEN {"interim"} ELSE {})

\* if response.results and response.results[0].alternatives: the mark of the
\* result is not looked at
HasTranscript(kind) == kind \in {"final", "interim"}

\* for response in responses: one response of the service.  A result with an
\* alternative (of audio already fed) has its transcript passed on; any other
\* response is skipped
ForResponse ==
    /\ tpc = "wait"
    /\ \E kind \in ResponseKinds(interim_results) :
          IF HasTranscript(kind)
          THEN /\ turns < MaxTurns
               /\ consumed # <<>>
               /\ turns' = turns + 1
               /\ received' = Append(received, kind)
               /\ tpc' = "decide"
          ELSE UNCHANGED <<turns, received, tpc>>
    /\ UNCHANGED <<genpc, consumed, conversation_history, lastDecide, pending,
                   synthesis_failed, language_code, lang_settings>>
    /\ UNCHANGED <<mainVars, archiveVars, queueVars, relayVars>>

\* the responses end once the request generator has ended
StreamEnd ==
    /\ tpc = "wait"
    /\ genpc = "done"
    /\ tpc' = "done"
    /\ UNCHANGED <<genpc, consumed, turns, received, conversation_history, lastDecide, pending,
                   synthesis_failed, language_code, lang_settings>>
    /\ UNCHANGED <<mainVars, archiveVars, queueVars, relayVars>>

\* except Exception of _start_transcription_stream: the recognition service fails
StreamError ==
    /\ tpc = "wait"
    /\ tpc' = "failed"
    /\ genpc' = Abandon(genpc)
    /\ UNCHANGED <<consumed, turns, received, conversation_history, lastDecide, pending,
                   synthesis_failed, language_code, lang_settings>>
    /\ UNCHANGED <<mainVars, archiveVars, queueVars, relayVars>>

UserTurn(n) == [role |-> "user", text |-> [what |-> "transcript", turn |-> n]]

ModelTurn(n) == [role |-> "model", text |-> [what |-> "response_text", turn |-> n]]

\* if gemini_response: a response text of None is not synthesized
Truthy(text) == text # "None"

\* _get_gemini_response(transcript).  The user turn is appended;
\* self.patient_info.get raises AttributeError outside the try block when no
\* record was fetched; otherwise the reasoning service is called once, the
\* decision parsed, the status updated for confirm and reschedule (a failing
\* update is caught in _update_appointment_status), the model turn appended and
\* the response text returned; an exception inside the try block returns a
\* fallback text.  The result: what the call did, and the history it leaves
GeminiResponse(n, history, o, update_ok) ==
    LET d == ParseDecision(o)
        status == StatusFor(d.intent)
        asked == Append(history, UserTurn(n))
    IN
    IF patient_info = "None"
    THEN [did |-> [turn |-> n, outcome |-> "none", intent |-> "None", calls |-> 0,
                   updates |-> <<>>, result |-> "raised", text |-> "None"],
          history |-> asked]
    ELSE IF d.exc # "None"
    THEN [did |-> [turn |-> n, outcome |-> OutcomeClass(o), intent |-> "None",
                   calls |-> 1, updates |-> <<>>,
                   result |-> IF FallbackText(d.exc) = "uncaught" THEN "raised"
                              ELSE "returned",
                   text |-> IF FallbackText(d.exc) = "uncaught" THEN "None"
                            ELSE FallbackText(d.exc)],
          history |-> asked]
    ELSE [did |-> [turn |-> n, outcome |-> OutcomeClass(o), intent |-> d.intent,
                   calls |-> 1,
                   updates |-> IF status = "None" THEN <<>> ELSE <<status>>,
                   result |-> "returned", text |-> d.response_text],
          history |-> Append(asked, ModelTurn(n))]

\* the body of the loop over the responses in _start_transcription_stream:
\* gemini_response = self._get_gemini_response(transcript); if it is truthy, the
\* synthesis call for it (the chunks are then put one by one); an exception ends
\* the thread in its except clause
Respond ==
    /\ tpc = "decide"
    /\ \E o \in ReasoningOutcomes :
       \E update_ok \in IF StatusFor(ParseDecision(o).intent) = "None" THEN {TRUE} ELSE BOOLEAN :
          LET r == GeminiResponse(turns, conversation_history, o, update_ok) IN
          /\ conversation_history' = r.history
          /\ lastDecide' = r.did
          /\ IF r.did.result = "raised"
             THEN /\ tpc' = "failed"
                  /\ genpc' = Abandon(genpc)
                  /\ UNCHANGED <<pending, synthesis_failed, lang_settings>>
             ELSE /\ IF Truthy(r.did.text)
                     THEN \E outcome \in SynthesisOutcomes(turns) :
                             /\ pending' = SynthesizeTextToSpeech(turns, outcome)
                             /\ synthesis_failed' = Failed(synthesis_failed, turns, outcome)
                             /\ lang_settings' = TtsSettings(patient_preferred_language)
                     ELSE /\ pending' = <<>>
                          /\ UNCHANGED <<synthesis_failed, lang_settings>>
                  /\ tpc' = "put"
                  /\ UNCHANGED genpc
    /\ UNCHANGED <<consumed, turns, received, language_code>>
    /\ UNCHANGED <<mainVars, archiveVars, queueVars, relayVars>>

\* self.tts_audio_queue.put(audio_chunk), chunk by chunk; when the generator is
\* exhausted the iteration is over and the thread waits for the next response
\* (lastDecide describes the call that has just returned, up to the next step)
PutResponseChunk ==
    /\ tpc = "put"
    /\ IF pending = <<>>
       THEN /\ tpc' = "wait"
            /\ lastDecide' = NoDecide
            /\ UNCHANGED <<pending, queueVars>>
       ELSE /\ tts_audio_queue' = QueuePut(tts_audio_queue, Head(pending))
            /\ enqueued' = [enqueued EXCEPT !.outbound = Append(@, Head(pending))]
            /\ pending' = Tail(pending)
            /\ lastDecide' = NoDecide
            /\ UNCHANGED <<tpc, audio_queue>>
    /\ UNCHANGED <<genpc, consumed, turns, received, conversation_history, synthesis_failed,
                   language_code, lang_settings>>
    /\ UNCHANGED <<mainVars, archiveVars, relayVars>>

(* --------------------------- the relay thread -------------------------- *)

\* _send_tts_audio: audio_data = self.tts_audio_queue.get(); None ends the loop
RelayGet ==
    /\ rpc = "get"
    /\ tts_audio_queue # <<>>
    /\ LET got == QueueGet(tts_audio_queue) IN
          /\ tts_audio_queue' = got.rest
          /\ IF IsNone(got.item)
             THEN /\ rpc' = "done"
                  /\ UNCHANGED audio_data
             ELSE /\ rpc' = "send"
                  /\ audio_data' = got.item
    /\ UNCHANGED <<audio_queue, enqueued, sent>>
    /\ UNCHANGED <<mainVars, archiveVars, transVars>>

\* a relay that records each chunk it sends as a turn of the history
RelaySendRecordsTurn ==
    /\ rpc = "send"
    /\ IF ws_closed
       THEN /\ rpc' = "broken"
            /\ UNCHANGED <<sent, conversation_history>>
       ELSE /\ rpc' = IF outbound_writer = "None" THEN "get" ELSE "write"
            /\ sent' = Append(sent, audio_data)
            /\ conversation_history' =
                  Append(conversation_history, ModelTurn(audio_data.utterance))
    /\ UNCHANGED audio_data
    /\ UNCHANGED <<tpc, genpc, consumed, turns, received, lastDecide, pending,
                   synthesis_failed, language_code, lang_settings>>
    /\ UNCHANGED <<mainVars, archiveVars, queueVars>>

\* _send_tts_audio: ws.send(json.dumps(message)); on a closed websocket it raises
\* WebSocketError, which is caught and ends the loop.  With no outbound writer
\* (None since the setup) the loop goes on to the next get
RelaySend ==
    /\ rpc = "send"
    /\ IF ws_closed
       THEN /\ rpc' = "broken"
            /\ UNCHANGED sent
       ELSE /\ rpc' = IF outbound_writer = "None" THEN "get" ELSE "write"
            /\ sent' = Append(sent, audio_data)
    /\ UNCHANGED audio_data
    /\ UNCHANGED <<mainVars, archiveVars, queueVars, transVars>>

\* _send_tts_audio: if self.outbound_writer: self.outbound_writer.writeframes(...);
\* a closed writer is still truthy and its writeframes raises, as does a failing
\* write: neither is a WebSocketError, so the thread ends with the exception
RelayWrite ==
    /\ rpc = "write"
    /\ IF outbound_writer = "closed"
       THEN /\ rpc' = "failed"
            /\ late_write' = [late_write EXCEPT !.outbound = TRUE]
            /\ UNCHANGED outbound_file
       ELSE \E write_ok \in BOOLEAN :
               IF write_ok
               THEN /\ rpc' = "get"
                    /\ outbound_file' = Append(outbound_file, audio_data)
                    /\ UNCHANGED late_write
               ELSE /\ rpc' = "failed"
                    /\ UNCHANGED <<outbound_file, late_write>>
    /\ UNCHANGED <<audio_data, sent>>
    /\ UNCHANGED <<inbound_writer, outbound_writer, inbound_file, closes>>
    /\ UNCHANGED <<mainVars, queueVars, transVars>>

(* ------------------- a second call of the close operation -------------- *)

\* self._close_audio_writers() invoked once more on the session after the teardown
\* has invoked it (handle_call itself invokes it once)
CloseAudioWritersAgain ==
    /\ mainpc \in {"stream_finally", "done"}
    /\ closes.calls = 1
    /\ \E outcome \in CloseOutcomes : CloseWriters(outcome)
    /\ UNCHANGED <<mainpc, ws_closed, agents, message, patient_info,
                   patient_preferred_language, greeting>>
    /\ UNCHANGED <<inbound_file, outbound_file, late_write>>
    /\ UNCHANGED <<queueVars, transVars, relayVars>>
    /\ UNCHANGED <<audio_content, streamVars>>

(* --------------------------- specification ----------------------------- *)

Next ==
    \/ Stream
    \/ SetupAudioWriters
    \/ GetPatientInfoFromDb
    \/ StartTranscriptionThread
    \/ StartTtsThread
    \/ SendInitialGreeting
    \/ PutGreetingChunk
    \/ LoopExit
    \/ ReceiveLoop
    \/ PutInboundSentinel
    \/ PutOutboundSentinel
    \/ CloseAudioWriters
    \/ StreamFinally
    \/ RequestGenerator
    \/ ForResponse
    \/ StreamEnd
    \/ StreamError
    \/ Respond
    \/ PutResponseChunk
    \/ RelayGet
    \/ RelaySend
    \/ RelayWrite

Spec == Init /\ [][Next]_vars

\* the session under fair scheduling of the two queue consumers: a get on a
\* non-empty queue returns, and a thread that is not blocked goes on running
\* (the recognition exchange keeps drawing requests from the generator)
SpecFair ==
    /\ Spec
    /\ WF_vars(RequestGenerator)
    /\ WF_vars(RelayGet)
    /\ WF_vars(RelaySend)
    /\ WF_vars(RelayWrite)

\* the session, with the close operation invoked a second time after the teardown
NextCloseTwice == Next \/ CloseAudioWritersAgain

SpecCloseTwice == Init /\ [][NextCloseTwice]_vars

(* ------------- the chunking of one synthesized payload ----------------- *)

\* a session that is about to synthesize its greeting, for every payload length
\* the synthesis service may return
InitChunks ==
    /\ mainpc = "greeting"
    /\ ws_closed = FALSE
    /\ agents = 1
    /\ appointment_id = "appt-1"
    /\ first_message = "connected"
    /\ ws_close_calls = 0
    /\ message = "none"
    /\ raised = FALSE
    /\ patient_info = "None"
    /\ patient_preferred_language = "English"
    /\ inbound_writer = "None"
    /\ outbound_writer = "None"
    /\ inbound_file = <<>>
    /\ outbound_file = <<>>
    /\ closes = [inbound |-> 0, outbound |-> 0, calls |-> 0, last |-> 0]
    /\ late_write = [inbound |-> FALSE, outbound |-> FALSE]
    /\ audio_queue = <<>>
    /\ tts_audio_queue = <<>>
    /\ enqueued = [inbound |-> <<>>, outbound |-> <<>>]
    /\ greeting = <<>>
    /\ audio_content \in 0..MaxPayload
    /\ tpc = "idle"
    /\ genpc = "idle"
    /\ consumed = <<>>
    /\ turns = 0
    /\ received = <<>>
    /\ conversation_history = <<>>
    /\ lastDecide = NoDecide
    /\ pending = <<>>
    /\ synthesis_failed = {}
    /\ language_code = "None"
    /\ lang_settings = NoSettings
    /\ rpc = "idle"
    /\ audio_data = NoneItem
    /\ sent = <<>>

\* _synthesize_text_to_speech for a service response of audio_content bytes, as
\* called by _send_initial_greeting
SynthesizePayload ==
    /\ mainpc = "greeting"
    /\ greeting' = SynthesizeTextToSpeech(0, [raises |-> FALSE, len |-> audio_content])
    /\ lang_settings' = TtsSettings(patient_preferred_language)
    /\ mainpc' = AfterGreeting(greeting')
    /\ UNCHANGED <<ws_closed, agents, message, raised, patient_info,
                   patient_preferred_language, audio_content, streamVars>>
    /\ UNCHANGED <<tpc, genpc, consumed, turns, received, conversation_history, lastDecide, pending,
                   synthesis_failed, language_code>>
    /\ UNCHANGED <<archiveVars, queueVars, relayVars>>

NextChunks == SynthesizePayload \/ PutGreetingChunk

SpecChunks == InitChunks /\ [][NextChunks]_vars

(* ------------- the language of the session, up to the greeting --------- *)

\* values of preferred_language in an appointment record: the keys of the table,
\* and values the table does not know ("None": the column is null)
PreferredLanguages ==
    DOMAIN language_map \cup {"Swahili", "english", "ENGLISH", "Hausa ", "", "None"}

\* a session whose _get_patient_info_from_db has returned: without a record
\* (language "English" from __init__) or with a record of any preferred language
InitLanguage ==
    /\ mainpc = "start_transcription"
    /\ ws_closed = FALSE
    /\ agents = 1
    /\ appointment_id = "appt-1"
    /\ first_message = "connected"
    /\ ws_close_calls = 0
    /\ message = "none"
    /\ raised = FALSE
    /\ \/ /\ patient_info = "None"
          /\ patient_preferred_language = "English"
       \/ /\ patient_info = "record"
          /\ patient_preferred_language \in PreferredLanguages
    /\ inbound_writer = "None"
    /\ outbound_writer = "None"
    /\ inbound_file = <<>>
    /\ outbound_file = <<>>
    /\ closes = [inbound |-> 0, outbound |-> 0, calls |-> 0, last |-> 0]
    /\ late_write = [inbound |-> FALSE, outbound |-> FALSE]
    /\ audio_queue = <<>>
    /\ tts_audio_queue = <<>>
    /\ enqueued = [inbound |-> <<>>, outbound |-> <<>>]
    /\ greeting = <<>>
    /\ audio_content = 0
    /\ tpc = "idle"
    /\ genpc = "idle"
    /\ consumed = <<>>
    /\ turns = 0
    /\ received = <<>>
    /\ conversation_history = <<>>
    /\ lastDecide = NoDecide
    /\ pending = <<>>
    /\ synthesis_failed = {}
    /\ language_code = "None"
    /\ lang_settings = NoSettings
    /\ rpc = "idle"
    /\ audio_data = NoneItem
    /\ sent = <<>>

\* the start of the two threads, the greeting and its relay
NextLanguage ==
    \/ StartTranscriptionThread
    \/ StartTtsThread
    \/ SendInitialGreeting
    \/ PutGreetingChunk
    \/ RelayGet
    \/ RelaySend

SpecLanguage == InitLanguage /\ [][NextLanguage]_vars

(* ------------------------------ helpers -------------------------------- *)

Sentinels(seq) == Cardinality({i \in 1..Len(seq) : IsNone(seq[i])})

\* the items put on a queue before its (first) sentinel
BeforeSentinel(seq) ==
    LET at == {i \in 1..Len(seq) : IsNone(seq[i])} IN
    IF at = {} THEN seq
    ELSE SubSeq(seq, 1, (CHOOSE i \in at : \A j \in at : i <= j) - 1)

IsPrefix(a, b) == Len(a) <= Len(b) /\ a = SubSeq(b, 1, Len(a))

\* handle_call has been entered and left (by return or by an exception)
HandleCallLeft == agents = 1 /\ mainpc \in {"stream_finally", "done"}

(* ------------------------------- claims -------------------------------- *)

\* C1: when a stop event or the closing of the transport has ended the receive
\* loop, then at the step in which the stream handler finally closes the session
\* (the archive handles are closed, the transport is closed now) every frame put
\* on the inbound queue before the sentinel has been consumed by the request
\* generator and every chunk put on the outbound queue before the sentinel has
\* been sent on the transport: no queued item is dropped.
C1_QueuedItemsDeliveredBeforeClose ==
    [][(mainpc = "stream_finally" /\ mainpc' = "done" /\ message \in {"stop", "closed"})
         => /\ consumed = BeforeSentinel(enqueued.inbound)
            /\ sent = BeforeSentinel(enqueued.outbound)]_vars

\* C2: neither queue ever receives more than one sentinel, and on every path on
\* which handle_call is left (stop event, closed transport, an exception in the
\* setup, the greeting or the receive loop) each queue has received exactly one.
C2_ExactlyOneSentinelPerQueue ==
    /\ Sentinels(enqueued.inbound) <= 1
    /\ Sentinels(enqueued.outbound) <= 1
    /\ HandleCallLeft => /\ Sentinels(enqueued.inbound) = 1
                         /\ Sentinels(enqueued.outbound) = 1

\* handle_call has been left by the exception of a malformed message, with one
\* sentinel on each queue
C2_Witness ==
    /\ mainpc = "stream_finally"
    /\ message \in Malformed
    /\ Sentinels(enqueued.inbound) = 1
    /\ Sentinels(enqueued.outbound) = 1

\* C3: for each archive direction, a write happens only to a handle that was
\* opened, and once handle_call is left an opened handle has been closed exactly
\* once, also when the close of the other handle raised an error.
C3_ArchiveClosedExactlyOnce ==
    /\ inbound_file # <<>> => inbound_writer # "None"
    /\ outbound_file # <<>> => outbound_writer # "None"
    /\ HandleCallLeft => /\ inbound_writer # "None" => closes.inbound = 1
                         /\ outbound_writer # "None" => closes.outbound = 1

C5_SubsequentDequeueReturnsSentinel ==
    /\ genpc = "done" => (audio_queue # <<>> /\ IsNone(Head(audio_queue)))
    /\ rpc = "done" => (tts_audio_queue # <<>> /\ IsNone(Head(tts_audio_queue)))

\* C5 as amended: the sentinel of a queue is pushed once and dequeued once, by the
\* one consumer of the queue, which ends on it without another dequeue (what was
\* put is what was consumed, the sentinel, and what is still queued); the
\* sentinel is not put back, so the queue holds no sentinel afterwards.
C5_SentinelDequeuedOnce ==
    /\ genpc = "done" =>
          /\ Sentinels(audio_queue) = 0
          /\ enqueued.inbound = consumed \o <<NoneItem>> \o audio_queue
    /\ rpc = "done" =>
          /\ Sentinels(tts_audio_queue) = 0
          /\ enqueued.outbound = sent \o <<NoneItem>> \o tts_audio_queue

\* the relay has ended on the sentinel and a chunk put after the sentinel is what
\* a subsequent dequeue would return
C5_Witness ==
    /\ rpc = "done"
    /\ genpc = "done"
    /\ tts_audio_queue # <<>>

\* C6: when the close operation has been invoked twice on a session, every
\* opened archive handle has been physically closed exactly once, no error was
\* raised, and the second invocation closed nothing.
C6_CloseTwiceClosesOnce ==
    closes.calls = 2 =>
        /\ inbound_writer # "None" => closes.inbound = 1
        /\ outbound_writer # "None" => closes.outbound = 1
        /\ ~raised
        /\ closes.last = 0

C8_OneServiceCallOneUpdate ==
    lastDecide.turn > 0 =>
        /\ lastDecide.calls = 1
        /\ lastDecide.result = "returned"
        /\ lastDecide.intent = "confirm" => lastDecide.updates = <<"confirmed">>
        /\ lastDecide.intent = "reschedule" => lastDecide.updates = <<"rescheduled">>
        /\ lastDecide.intent \notin {"confirm", "reschedule"} => lastDecide.updates = <<>>

\* C9: when the n-th call of _get_gemini_response has returned (a parsed response
\* or a fallback text), the conversation history holds exactly 2n turns,
\* alternating user, model.
C9_TwoTurnsPerDecide ==
    lastDecide.result = "returned" =>
        /\ Len(conversation_history) = 2 * lastDecide.turn
        /\ \A i \in 1..Len(conversation_history) :
              conversation_history[i].role = IF i % 2 = 1 THEN "user" ELSE "model"

\* C10: after a malformed inbound message the receive loop is still active and no
\* sentinel has been pushed on either queue.
C10_MalformedFrameDropped ==
    message \in Malformed =>
        /\ mainpc = "loop"
        /\ Sentinels(enqueued.inbound) = 0
        /\ Sentinels(enqueued.outbound) = 0

\* C11: once the transcription thread has ended on a failure, the receive loop is
\* left only by a stop event or by the closing of the transport: no other event
\* takes the thread of handle_call out of the loop.
C11_FailureNeverEndsSession ==
    [][(tpc = "failed" /\ mainpc = "loop" /\ mainpc' # "loop")
         => message' \in {"stop", "closed"}]_vars

\* C12: a failing archive write aborts neither direction: the receive loop is still
\* active after a media frame whose write to the inbound archive failed, and the
\* relay thread never ends on a failing write to the outbound archive.
C12_ArchiveWriteFailureNeverAborts ==
    /\ message = "media" => mainpc = "loop"
    /\ rpc # "failed"

\* C13: when no appointment record was fetched the session uses the default
\* language, and every call of _get_gemini_response for a finalized transcript
\* invokes the reasoning service once and returns a response text.
C13_AbsentRecordKeepsTurnTaking ==
    (patient_info = "None" /\ agents = 1) =>
        /\ patient_preferred_language = "English"
        /\ lastDecide.turn > 0 =>
              /\ lastDecide.calls = 1
              /\ lastDecide.result = "returned"
              /\ Truthy(lastDecide.text)

\* the chunks of utterance u in a sequence of queue items
ChunksOf(u, seq) == {i \in 1..Len(seq) : seq[i].kind = "chunk" /\ seq[i].utterance = u}

\* C14: a failing synthesis call yields no chunk and raises nothing to its caller:
\* nothing of that utterance is ever put on the outbound queue; after a failing
\* greeting the thread of handle_call enters the receive loop; after a failing
\* response the transcription thread finishes the iteration and waits for the
\* next finalized transcript.
C14_SynthesisFailureYieldsNothing ==
    [][/\ \A u \in synthesis_failed' :
             /\ ChunksOf(u, enqueued'.outbound) = {}
             /\ ChunksOf(u, greeting') = {}
             /\ ChunksOf(u, pending') = {}
       /\ \A u \in synthesis_failed' \ synthesis_failed :
             IF u = 0 THEN mainpc' = "loop"
             ELSE tpc' = "put" /\ pending' = <<>>
       /\ (tpc = "put" /\ pending = <<>> /\ tpc' # tpc) => tpc' = "wait"]_vars

\* the synthesis of the greeting and of a response have both failed; the receive
\* loop is active and the transcription thread waits for the next transcript
C14_Witness ==
    /\ 0 \in synthesis_failed
    /\ turns \in synthesis_failed
    /\ turns > 0
    /\ mainpc = "loop"
    /\ tpc = "wait"

\* C15: the chunks synthesize yields for a payload of L bytes (those already put
\* on the outbound queue followed by those still to put) are consecutive slices
\* of the payload that start at byte 0 and end at byte L, every chunk but the last
\* of 2048 bytes and the last of 1 to 2048 bytes; an empty payload yields no
\* chunk, and 5000 bytes yield chunks of 2048, 2048 and 904 bytes.
C15_ChunksPartitionPayload ==
    LET all == enqueued.outbound \o greeting
        k == Len(all)
    IN
    mainpc # "greeting" =>
        /\ \A j \in 1..k : all[j].kind = "chunk" /\ all[j].index = (j - 1) * 2048
        /\ \A j \in 1..(k - 1) : all[j].size = 2048
        /\ k > 0 => /\ all[k].size \in 1..2048
                    /\ all[k].index + all[k].size = audio_content
        /\ k = 0 <=> audio_content = 0
        /\ audio_content = 5000 => [j \in 1..k |-> all[j].size] = <<2048, 2048, 904>>

\* a payload of 5000 bytes has been yielded completely, in three chunks
C15_Witness ==
    /\ audio_content = 5000
    /\ mainpc = "loop"
    /\ Len(enqueued.outbound) = 3

\* C16: when no record was fetched or the preferred language is not a key of the
\* language table, the recognition locale and the synthesis locale and voice are
\* those of the English entry of the table; for a key of the table they are those
\* of its entry (the profile depends on the preferred language only).
C16_UnknownLanguageResolvesToDefault ==
    LET profile == IF patient_info = "None"
                      \/ patient_preferred_language \notin DOMAIN language_map
                   THEN language_map["English"]
                   ELSE language_map[patient_preferred_language]
    IN
    /\ language_code # "None" => language_code = profile.stt_code
    /\ lang_settings # NoSettings =>
          /\ lang_settings.tts_code = profile.tts_code
          /\ lang_settings.tts_voice_name = profile.tts_voice_name

\* a session whose record names a language the table does not know has started
\* the recognition with en-US and sent a greeting synthesized with the English voice
C16_Witness ==
    /\ patient_preferred_language = "Swahili"
    /\ language_code = "en-US"
    /\ lang_settings # NoSettings
    /\ lang_settings.tts_voice_name = "en-US-Wavenet-F"
    /\ sent # <<>>

\* the turns of the patient in a history
UserTurns(history) == {i \in 1..Len(history) : history[i].role = "user"}

\* C17: every transcript passed to _get_gemini_response comes from a result the
\* service marked finalized, and each such result has led to exactly one call
\* (one user turn in the history, once the call has begun); no response text is
\* synthesized for anything but a finalized result.
C17_OnlyFinalizedResultsDecide ==
    LET finals == {i \in 1..Len(received) : received[i] = "final"} IN
    /\ \A i \in 1..Len(received) : received[i] = "final"
    /\ Cardinality(UserTurns(conversation_history))
          = Cardinality(finals) - (IF tpc = "decide" THEN 1 ELSE 0)
    /\ lastDecide.turn > 0 => lastDecide.turn \in finals
    /\ \A i \in 1..Len(enqueued.outbound) :
          (enqueued.outbound[i].kind = "chunk" /\ enqueued.outbound[i].utterance > 0)
             => enqueued.outbound[i].utterance \in finals

\* a finalized result has been answered: one call, one user turn, and the chunks
\* of the response are on the outbound queue
C17_Witness ==
    /\ received = <<"final">>
    /\ Cardinality(UserTurns(conversation_history)) = 1
    /\ tpc = "wait"
    /\ ChunksOf(1, enqueued.outbound) # {}

\* the thread of handle_call has pushed both sentinels
SentinelsPushed ==
    agents = 1 /\ mainpc \in {"close_audio_writers", "stream_finally", "done"}

\* the request generator is not (or no longer) in its loop
GeneratorExited == genpc \in {"idle", "done", "abandoned"}

\* the relay is not (or no longer) in its loop
RelayExited == rpc \in {"idle", "done", "broken", "failed"}

\* C18: under fair scheduling, once the thread of handle_call has pushed the
\* sentinels, the request generator and the relay each eventually are out of
\* their loop (they dequeued the sentinel, or had ended before): neither stays
\* blocked on a dequeue; a consumer that has dequeued the sentinel has left its
\* loop at once, and the sentinel is not put back on the queue.
C18_ConsumersEndAfterSentinels ==
    /\ SentinelsPushed ~> GeneratorExited
    /\ SentinelsPushed ~> RelayExited
    /\ [](genpc = "done" => Sentinels(audio_queue) = 0)
    /\ [](rpc = "done" => Sentinels(tts_audio_queue) = 0)

\* after the teardown both consumers have dequeued their sentinel and ended on it
C18_Witness ==
    /\ SentinelsPushed
    /\ genpc = "done"
    /\ rpc = "done"
    /\ consumed # <<>>
    /\ sent # <<>>

\* C19: the sentinel is the last item ever put on its queue: no frame follows
\* the sentinel on the inbound queue and no chunk follows it on the outbound
\* queue.
C19_NothingEnqueuedAfterSentinel ==
    /\ \A i \in 1..Len(enqueued.inbound) :
          IsNone(enqueued.inbound[i]) => i = Len(enqueued.inbound)
    /\ \A i \in 1..Len(enqueued.outbound) :
          IsNone(enqueued.outbound[i]) => i = Len(enqueued.outbound)

\* C20: the conversation history changes only in a step of the transcription
\* thread that runs _get_gemini_response, and only by appending; the thread of
\* handle_call and the relay thread take no part in such a step, so two appends
\* are never in progress at once.
C20_HistoryWrittenOnlyInDecide ==
    [][conversation_history' # conversation_history =>
          /\ tpc = "decide"
          /\ tpc' \in {"put", "failed"}
          /\ mainpc' = mainpc
          /\ rpc' = rpc
          /\ IsPrefix(conversation_history, conversation_history')]_vars

\* a call of _get_gemini_response has appended both turns while the receive loop
\* is active and the relay is about to send a chunk
C20_Witness ==
    /\ lastDecide.turn = 1
    /\ Len(conversation_history) = 2
    /\ mainpc = "loop"
    /\ rpc = "send"

\* C21: no write is made to an archive handle that has been closed: neither the
\* relay thread on the outbound handle nor the receive loop on the inbound one
\* ever calls writeframes on a closed writer.
C21_NoWriteAfterClose ==
    /\ ~late_write.inbound
    /\ ~late_write.outbound

\* the chunks of each utterance are next to one another in a sequence of items
UtterancesContiguous(seq) ==
    \A i, j, k \in 1..Len(seq) :
        (i < j /\ j < k /\ seq[i].kind = "chunk" /\ seq[k].kind = "chunk"
            /\ seq[i].utterance = seq[k].utterance)
          => (seq[j].kind = "chunk" /\ seq[j].utterance = seq[i].utterance)

\* the relay sends the chunks in the order of their puts, each once
SentInPutOrder == IsPrefix(sent, BeforeSentinel(enqueued.outbound))

\* with an outbound archive, what is archived is what was sent, in that order
\* (the chunk just sent is archived in the relay's next step)
ArchivedWhatWasSent ==
    outbound_writer # "None" =>
        /\ IsPrefix(outbound_file, sent)
        /\ rpc # "write" => outbound_file = sent

\* C22: the relay sends the chunks in the order in which they were put on the
\* outbound queue, each at most once; the outbound archive holds exactly the
\* chunks sent, in the same order; and the chunks of one utterance are never
\* interleaved with those of another.
C22_RelayKeepsOrder ==
    /\ SentInPutOrder
    /\ ArchivedWhatWasSent
    /\ UtterancesContiguous(enqueued.outbound)

\* C23: while the greeting is being synthesized and queued, no inbound frame has
\* been enqueued or consumed and no transcript or response exists; when the
\* receive loop is active every chunk of the greeting has been put on the
\* outbound queue (up to the last byte of its audio, unless its synthesis
\* failed); and the chunks of the greeting precede every other item put on the
\* outbound queue.
C23_GreetingQueuedBeforeActive ==
    LET out == enqueued.outbound IN
    /\ mainpc \in {"greeting", "greeting_put"} =>
          /\ enqueued.inbound = <<>>
          /\ consumed = <<>>
          /\ turns = 0
          /\ \A i \in 1..Len(out) : out[i].kind = "chunk" /\ out[i].utterance = 0
    /\ mainpc = "loop" =>
          /\ greeting = <<>>
          /\ 0 \notin synthesis_failed =>
                \E i \in ChunksOf(0, out) : out[i].index + out[i].size \in PayloadLens(0)
    /\ \A i, j \in 1..Len(out) :
          (i < j /\ out[j].kind = "chunk" /\ out[j].utterance = 0)
             => (out[i].kind = "chunk" /\ out[i].utterance = 0)

\* the whole greeting was queued first, then a frame was received and the
\* response to its transcript queued
C23_Witness ==
    /\ Cardinality(ChunksOf(0, enqueued.outbound)) = 2
    /\ ChunksOf(1, enqueued.outbound) # {}
    /\ enqueued.inbound # <<>>
    /\ mainpc = "loop"

(* ------------------------------ stream ---------------------------------- *)

\* C24: a connection gets at most one VoiceAgent, and only when its request
\* carries an appointment id and its first message is a connected event; when
\* stream has returned the websocket is closed; stream calls ws.close() at most
\* once, and only on a websocket that is not closed yet
C24_OneSessionAndTransportClosedOnce ==
    /\ [](/\ agents <= 1
          /\ agents = 1 => (HasAppointmentId(appointment_id) /\ first_message = "connected")
          /\ mainpc = "done" => ws_closed
          /\ ws_close_calls <= 1)
    /\ [][ws_close_calls' # ws_close_calls =>
            /\ ~ws_closed
            /\ ws_closed'
            /\ ws_close_calls' = ws_close_calls + 1]_vars

\* a call whose peer closed the websocket has ended: stream has returned without
\* closing the websocket again
C24_Witness ==
    /\ mainpc = "done"
    /\ agents = 1
    /\ closes.calls = 1
    /\ ws_closed
    /\ ws_close_calls = 0

====
